---------------------------- MODULE Spec2Model ----------------------------
(***************************************************************************)
(* State-machine model of the YouTube download tool (src/main.py):          *)
(* main -> parse_arguments -> YouTubeDownloader.__init__ -> run, where run  *)
(* either lists every URL (simulate) or downloads every URL, optionally     *)
(* handing the downloaded file to _embed_subtitles.                         *)
(*                                                                          *)
(* The extraction engine (yt_dlp) and the media-processing binary (ffmpeg)  *)
(* are external: each call is a nondeterministic choice over the outcomes   *)
(* the call can have (return, raise, files written).                        *)
(***************************************************************************)
EXTENDS Integers, Sequences, FiniteSets, TLC

(***************************************************************************)
(* Bounds of the model.                                                     *)
(***************************************************************************)
MaxUrls == 2

(***************************************************************************)
(* Program constants (src/main.py:35-40).                                   *)
(***************************************************************************)
SUPPORTED_SUBTITLE_FORMATS == <<"vtt", "srt", "ass">>
EXIT_SUCCESS == 0
EXIT_GENERAL_ERROR == 1
EXIT_NETWORK_ERROR == 2
\* status argparse's parser.error() exits with
EXIT_USAGE == 2

None == "None"

(***************************************************************************)
(* URLs, as urlparse() splits them: a scheme and a netloc (a string, kept   *)
(* as its sequence of characters so that substring tests are computed).     *)
(***************************************************************************)
Urls ==
  { [scheme |-> "https", netloc |-> <<"y","o","u","t","u",".","b","e">>],
    [scheme |-> "http",  netloc |-> <<"m",".","y","o","u","t","u","b","e",".","c","o","m">>],
    [scheme |-> "ftp",   netloc |-> <<"y","o","u","t","u","b","e",".","c","o","m">>],
    [scheme |-> "https", netloc |-> <<"v","i","m","e","o",".","c","o","m">>] }

valid_hosts ==
  { <<"y","o","u","t","u","b","e",".","c","o","m">>,
    <<"w","w","w",".","y","o","u","t","u","b","e",".","c","o","m">>,
    <<"y","o","u","t","u",".","b","e">>,
    <<"m",".","y","o","u","t","u","b","e",".","c","o","m">> }

\* Python's `host in netloc` on strings
IsSubstring(h, s) ==
  \E k \in 0..(Len(s) - Len(h)) : SubSeq(s, k + 1, k + Len(h)) = h

validate_url(url) ==
  /\ url.scheme \in {"http", "https"}
  /\ \E host \in valid_hosts : IsSubstring(host, url.netloc)

\* variant: the URL loop of lines 570-572 stopping after the first URL
ArgsAccepted_first_url_only(a) ==
  /\ ~(a.audio_only /\ a.video_only)
  /\ validate_url(a.urls[1])

\* parse_arguments returns (TRUE) or calls parser.error (FALSE)
ArgsAccepted(a) ==
  /\ ~(a.audio_only /\ a.video_only)
  /\ \A j \in 1..Len(a.urls) : validate_url(a.urls[j])

(***************************************************************************)
(* The output directory.  A path is the sequence of the dot-separated       *)
(* components of the file name; the filesystem is a set of <<path, data>>   *)
(* pairs with at most one pair per path.                                    *)
(***************************************************************************)
Exists(f, p) == \E e \in f : e[1] = p
Data(f, p) == (CHOOSE e \in f : e[1] = p)[2]
Unlink(f, p) == {e \in f : e[1] # p}
WriteFile(f, p, d) == Unlink(f, p) \cup {<<p, d>>}
Rename(f, src, dst) == WriteFile(Unlink(f, src), dst, Data(f, src))
Paths(f) == {e[1] : e \in f}

\* pathlib: PurePath.suffix and PurePath.with_suffix
suffix(p) == IF Len(p) > 1 THEN <<p[Len(p)]>> ELSE <<>>
with_suffix(p, sfx) ==
  IF Len(p) > 1 THEN SubSeq(p, 1, Len(p) - 1) \o sfx ELSE p \o sfx

(***************************************************************************)
(* Request flags (argparse Namespace) and engine metadata.                  *)
(***************************************************************************)
UrlLists == UNION {[1..n -> Urls] : n \in 1..MaxUrls}

Requests ==
  [urls : UrlLists, audio_only : BOOLEAN, video_only : BOOLEAN,
   subtitles : BOOLEAN, embed_subs : BOOLEAN, overwrite : BOOLEAN,
   simulate : BOOLEAN]

Titles == {"a"}
NativeExts == {"webm"}
ManualLangs == {"en"}
AutoLangs == {"fr"}

\* the info dict returned by ydl.extract_info
Infos ==
  [title : Titles, ext : NativeExts,
   subtitles : SUBSET ManualLangs, automatic_captions : SUBSET AutoLangs]

NoInfo == [title |-> "", ext |-> "", subtitles |-> {}, automatic_captions |-> {}]

\* files the output directory may hold before the run
InitialFiles == { {}, {<<<<"a", "temp", "webm">>, "stale">>} }

(***************************************************************************)
(* YouTubeDownloader._get_ydl_opts: the options the claims depend on.       *)
(***************************************************************************)
get_ydl_opts(a, ffmpeg) ==
  [postprocessors |-> IF a.audio_only /\ ffmpeg
                      THEN <<"FFmpegExtractAudio">> ELSE <<>>,
   writesubtitles |-> a.subtitles,
   overwrites |-> a.overwrite]

NoOpts == [postprocessors |-> <<>>, writesubtitles |-> FALSE, overwrites |-> FALSE]

\* ydl.prepare_filename(info) under outtmpl '%(title)s.%(ext)s'
prepare_filename(inf) == <<inf.title, inf.ext>>

(***************************************************************************)
(* The extraction engine: ydl.extract_info(url, download=True).  It raises  *)
(* DownloadError or some other exception, or returns the metadata; it may   *)
(* or may not leave the media file (a skipped or filtered download reports  *)
(* no error), and writes caption sidecars for some of the languages.        *)
(***************************************************************************)
EngineMedia(f, opts, inf) ==
  LET target == IF opts.postprocessors # <<>>
                THEN with_suffix(prepare_filename(inf), <<"mp3">>)
                ELSE prepare_filename(inf)
  IN IF Exists(f, target) /\ ~opts.overwrites THEN f
     ELSE WriteFile(f, target, "raw")

RECURSIVE EngineCaptions(_, _, _, _)
EngineCaptions(f, inf, langs, ext) ==
  IF langs = {} THEN f
  ELSE LET l == CHOOSE x \in langs : TRUE
       IN EngineCaptions(WriteFile(f, <<inf.title, l, ext>>, "caption"),
                         inf, langs \ {l}, ext)

FetchOutcomes(f, opts) ==
  {[status |-> s, info |-> NoInfo, fs |-> f] : s \in {"DownloadError", "Exception"}}
  \cup
  UNION { UNION { UNION {
    {[status |-> "ok", info |-> inf,
      fs |-> EngineCaptions(IF wrote THEN EngineMedia(f, opts, inf) ELSE f,
                            inf, W, ext)] : ext \in IF W = {} THEN {"srt"} ELSE {"srt", "vtt"}}
      : W \in IF opts.writesubtitles
              THEN SUBSET (inf.subtitles \cup inf.automatic_captions) ELSE {{}} }
      : wrote \in BOOLEAN }
      : inf \in Infos }

\* ydl.extract_info(url, download=False): the metadata query only
QueryOutcomes == {"ok", "DownloadError", "Exception"}

(***************************************************************************)
(* download_video, lines 264-288.                                           *)
(***************************************************************************)
\* variant: line 269 without the ffmpeg_available test
ExpectedOutputPath_always_mp3(a, ffmpeg, filename) ==
  IF a.audio_only THEN with_suffix(filename, <<"mp3">>) ELSE filename

ExpectedOutputPath(a, ffmpeg, filename) ==
  IF a.audio_only /\ ffmpeg THEN with_suffix(filename, <<"mp3">>) ELSE filename

ShouldEmbed(a, ffmpeg) == a.embed_subs /\ a.subtitles /\ ffmpeg

\* variant: the path returned without the exists() test of line 276
VerifiedResult_unchecked(f, path) == path

\* lines 276-281: the path if it exists on disk, else None
VerifiedResult(f, path) == IF Exists(f, path) THEN path ELSE None

\* variant: without the except Exception clause of lines 286-288
CaughtInDownload_only_DownloadError(e) == e = "DownloadError"

\* lines 283-288: both except clauses return None
CaughtInDownload(e) == e \in {"DownloadError", "Exception"}

(***************************************************************************)
(* _embed_subtitles, lines 301-372.                                         *)
(***************************************************************************)
FirstMatch(f, base, lang) ==
  LET hits == {k \in 1..Len(SUPPORTED_SUBTITLE_FORMATS) :
                 Exists(f, base \o <<lang, SUPPORTED_SUBTITLE_FORMATS[k]>>)}
      k0 == CHOOSE k \in hits : \A m \in hits : k <= m
  IN base \o <<lang, SUPPORTED_SUBTITLE_FORMATS[k0]>>

\* variant: every caption language taken without the exists() test of line 312
FindSubtitleFiles_unprobed(f, video_path, inf) ==
  {<<lang, with_suffix(video_path, <<>>) \o <<lang, SUPPORTED_SUBTITLE_FORMATS[1]>>>> :
     lang \in inf.subtitles \cup inf.automatic_captions}

\* lines 306-314: first existing sidecar per language
FindSubtitleFiles(f, video_path, inf) ==
  LET base_path == with_suffix(video_path, <<>>)
  IN {<<lang, FirstMatch(f, base_path, lang)>> :
        lang \in {l \in inf.subtitles \cup inf.automatic_captions :
                    \E k \in 1..Len(SUPPORTED_SUBTITLE_FORMATS) :
                      Exists(f, base_path \o <<l, SUPPORTED_SUBTITLE_FORMATS[k]>>)}}

\* line 323
TempOutput(video_path) == with_suffix(video_path, <<"temp">> \o suffix(video_path))

\* subprocess.run(cmd, check=True) of the ffmpeg remux, lines 347-355:
\* with -n an existing target makes ffmpeg refuse; otherwise it writes the
\* target and exits 0, or exits non-zero leaving the target as it was or
\* half-written.
RemuxOutcomes(f, overwrite, temp_output) ==
  IF ~overwrite /\ Exists(f, temp_output)
  THEN {[status |-> "failed", fs |-> f]}
  ELSE {[status |-> "ok", fs |-> WriteFile(f, temp_output, "muxed")],
        [status |-> "failed", fs |-> f],
        [status |-> "failed", fs |-> WriteFile(f, temp_output, "partial")]}

\* line 359
UnlinkOriginal(f, video_path, temp_output) == Unlink(f, video_path)

\* variant: the temporary output copied instead of renamed
RenameTemp_copy(f, video_path, temp_output) ==
  WriteFile(f, video_path, Data(f, temp_output))

\* line 360
RenameTemp(f, video_path, temp_output) == Rename(f, temp_output, video_path)

\* variant: the except clause without the unlink of line 370
RemuxFailed_keep_temp(f, temp_output) == f

\* lines 367-370
RemuxFailed(f, temp_output) ==
  IF Exists(f, temp_output) THEN Unlink(f, temp_output) ELSE f

\* line 372
EmbedReturn(video_path, temp_output) == video_path

NoEmbed ==
  [phase |-> "idle", video_path |-> <<>>, temp_output |-> <<>>,
   subtitle_files |-> {}, remaining |-> {}, entry_fs |-> {}]

(***************************************************************************)
(* run, lines 404-424.                                                      *)
(***************************************************************************)
\* variant: success as soon as one URL succeeded
RunExitCode_any_success(count, n) ==
  IF count > 0 THEN EXIT_SUCCESS ELSE EXIT_GENERAL_ERROR

RunExitCode(count, n) ==
  IF count = n THEN EXIT_SUCCESS ELSE EXIT_GENERAL_ERROR

\* list_formats, lines 230-232, and main, lines 592-594
\* variant: the listing failure reported with the general status
ListFailureExit_general(outcome) == EXIT_GENERAL_ERROR

ListFailureExit(outcome) ==
  IF outcome = "DownloadError" THEN EXIT_NETWORK_ERROR ELSE EXIT_GENERAL_ERROR

(***************************************************************************)
(* download_video, line 245: the with block of tempfile.TemporaryDirectory. *)
(* The directory of the attempt on URL number d is named d.                 *)
(***************************************************************************)
AcquireTempDir(dirs, d) == dirs \cup {d}

\* variant: a directory made with mkdtemp and never removed
ReleaseTempDir_leak(dirs, d) == dirs

\* __exit__ of the with block: on return and on a propagating exception
ReleaseTempDir(dirs, d) == dirs \ {d}

(***************************************************************************)
(* State.                                                                   *)
(*   args             the parsed request                                    *)
(*   pc               position of the single control thread                 *)
(*   exit_code        status passed to sys.exit, -1 while running           *)
(*   exit_reason      which exit was taken                                  *)
(*   constructed      a YouTubeDownloader has been constructed              *)
(*   ffmpeg_available result of _check_ffmpeg at construction               *)
(*   i                number of URLs run() has finished with                *)
(*   success_count, failed_urls   run()'s accumulators                      *)
(*   fs               files of the output directory                         *)
(*   temp_dirs        existing TemporaryDirectory instances (by URL index)  *)
(*   ydl_opts, info, output_path, result   locals of download_video         *)
(*   em               locals of _embed_subtitles                            *)
(*   listed, fetched  URL indices queried with download=False / True        *)
(*   raised           URL indices whose engine call raised                  *)
(*   exc              the exception being handled, "none" otherwise         *)
(*   results          value download_video returned, per URL                *)
(*   verified         per URL: the final path existed when it returned      *)
(***************************************************************************)
VARIABLES args, pc, exit_code, exit_reason, constructed, ffmpeg_available,
          i, success_count, failed_urls, fs, temp_dirs,
          ydl_opts, info, output_path, result, em,
          listed, fetched, raised, exc, results, verified

vars == <<args, pc, exit_code, exit_reason, constructed, ffmpeg_available,
          i, success_count, failed_urls, fs, temp_dirs,
          ydl_opts, info, output_path, result, em,
          listed, fetched, raised, exc, results, verified>>

runVars == <<i, success_count, failed_urls>>
localVars == <<ydl_opts, info, output_path, result, em>>
histVars == <<listed, fetched, raised, exc, results, verified>>

N == Len(args.urls)
RaisedAt(j) == j \in raised

Init ==
  /\ args \in Requests
  /\ pc = "parse"
  /\ exit_code = -1
  /\ exit_reason = "none"
  /\ constructed = FALSE
  /\ ffmpeg_available = FALSE
  /\ i = 0
  /\ success_count = 0
  /\ failed_urls = <<>>
  /\ fs \in InitialFiles
  /\ temp_dirs = {}
  /\ ydl_opts = NoOpts
  /\ info = NoInfo
  /\ output_path = <<>>
  /\ result = None
  /\ em = NoEmbed
  /\ listed = <<>>
  /\ fetched = <<>>
  /\ raised = {}
  /\ exc = "none"
  /\ results = <<>>
  /\ verified = <<>>

\* sys.exit(code)
Exit(code, reason) ==
  /\ pc' = "exited"
  /\ exit_code' = code
  /\ exit_reason' = reason

(***************************************************************************)
(* main, line 581: parse_arguments (lines 563-574).                         *)
(***************************************************************************)
parse_arguments ==
  /\ pc = "parse"
  /\ IF ArgsAccepted(args)
     THEN pc' = "init" /\ UNCHANGED <<exit_code, exit_reason>>
     ELSE Exit(EXIT_USAGE, "usage")
  /\ UNCHANGED <<args, constructed, ffmpeg_available, runVars, fs, temp_dirs,
                 localVars, histVars>>

(***************************************************************************)
(* main, line 584: YouTubeDownloader.__init__ (lines 82-97).                *)
(***************************************************************************)
init ==
  /\ pc = "init"
  /\ constructed' = TRUE
  /\ ffmpeg_available' \in BOOLEAN
  /\ pc' = "run"
  /\ UNCHANGED <<args, exit_code, exit_reason, runVars, fs, temp_dirs,
                 localVars, histVars>>

(***************************************************************************)
(* run, lines 398-402: one iteration calls list_formats (lines 182-232).    *)
(***************************************************************************)
list_formats ==
  /\ pc = "run"
  /\ args.simulate
  /\ i < N
  /\ listed' = Append(listed, i + 1)
  /\ \E outcome \in QueryOutcomes :
       IF outcome = "ok"
       THEN /\ i' = i + 1
            /\ UNCHANGED <<pc, exit_code, exit_reason, raised, exc>>
       ELSE \* DownloadError: sys.exit of line 232; anything else reaches main
            /\ raised' = raised \cup {i + 1}
            /\ exc' = outcome
            /\ Exit(ListFailureExit(outcome),
                    IF outcome = "DownloadError" THEN "network" ELSE "crash")
            /\ UNCHANGED i
  /\ UNCHANGED <<args, constructed, ffmpeg_available, success_count,
                 failed_urls, fs, temp_dirs, localVars,
                 fetched, results, verified>>

\* run, line 402, then main, line 587
run_simulate_return ==
  /\ pc = "run"
  /\ args.simulate
  /\ i = N
  /\ Exit(EXIT_SUCCESS, "returned")
  /\ UNCHANGED <<args, constructed, ffmpeg_available, runVars, fs, temp_dirs,
                 localVars, histVars>>

\* the download loop entered without the simulate short-circuit of line 398
download_enter_in_simulate ==
  /\ pc = "run"
  /\ i < N
  /\ temp_dirs' = AcquireTempDir(temp_dirs, i + 1)
  /\ ydl_opts' = get_ydl_opts(args, ffmpeg_available)
  /\ info' = NoInfo
  /\ output_path' = <<>>
  /\ result' = None
  /\ em' = NoEmbed
  /\ pc' = "extract"
  /\ UNCHANGED <<args, exit_code, exit_reason, constructed, ffmpeg_available,
                 runVars, fs, histVars>>

(***************************************************************************)
(* run, line 409: download_video is entered (lines 245-246).                *)
(***************************************************************************)
download_enter ==
  /\ pc = "run"
  /\ ~args.simulate
  /\ i < N
  /\ temp_dirs' = AcquireTempDir(temp_dirs, i + 1)
  /\ ydl_opts' = get_ydl_opts(args, ffmpeg_available)
  /\ info' = NoInfo
  /\ output_path' = <<>>
  /\ result' = None
  /\ em' = NoEmbed
  /\ pc' = "extract"
  /\ UNCHANGED <<args, exit_code, exit_reason, constructed, ffmpeg_available,
                 runVars, fs, histVars>>

(***************************************************************************)
(* download_video, lines 248-274 and the except clauses 283-288.            *)
(***************************************************************************)
download_extract ==
  /\ pc = "extract"
  /\ IF args.simulate
     THEN \* lines 254-262: metadata only, return None
          /\ listed' = Append(listed, i + 1)
          /\ pc' = "leave"
          /\ result' = None
          /\ UNCHANGED <<fs, info, output_path, fetched, raised, exc,
                         exit_code, exit_reason, temp_dirs>>
     ELSE /\ fetched' = Append(fetched, i + 1)
          /\ UNCHANGED listed
          /\ \E o \in FetchOutcomes(fs, ydl_opts) :
               IF o.status = "ok"
               THEN /\ fs' = o.fs
                    /\ info' = o.info
                    /\ output_path' = ExpectedOutputPath(args, ffmpeg_available,
                                                         prepare_filename(o.info))
                    /\ pc' = IF ShouldEmbed(args, ffmpeg_available)
                             THEN "embed" ELSE "verify"
                    /\ UNCHANGED <<result, raised, exc, exit_code, exit_reason, temp_dirs>>
               ELSE /\ raised' = raised \cup {i + 1}
                    /\ exc' = o.status
                    /\ UNCHANGED <<fs, info, output_path>>
                    /\ IF CaughtInDownload(o.status)
                       THEN /\ result' = None
                            /\ pc' = "leave"
                            /\ UNCHANGED <<exit_code, exit_reason, temp_dirs>>
                       ELSE \* propagates to main, lines 592-594
                            /\ Exit(EXIT_GENERAL_ERROR, "crash")
                            /\ temp_dirs' = ReleaseTempDir(temp_dirs, i + 1)
                            /\ UNCHANGED result
  /\ UNCHANGED <<args, constructed, ffmpeg_available, runVars, ydl_opts, em,
                 results, verified>>

(***************************************************************************)
(* _embed_subtitles, lines 301-323: existence check and discovery.          *)
(***************************************************************************)
embed_discover ==
  /\ pc = "embed"
  /\ LET found == FindSubtitleFiles(fs, output_path, info)
     IN IF ~Exists(fs, output_path)
        THEN /\ em' = [NoEmbed EXCEPT !.phase = "nofile", !.video_path = output_path,
                                      !.entry_fs = fs]
             /\ pc' = "embed_return"
        ELSE IF found = {}
        THEN /\ em' = [NoEmbed EXCEPT !.phase = "nosubs", !.video_path = output_path,
                                      !.entry_fs = fs]
             /\ pc' = "embed_return"
        ELSE /\ em' = [phase |-> "found", video_path |-> output_path,
                       temp_output |-> TempOutput(output_path),
                       subtitle_files |-> found, remaining |-> found,
                       entry_fs |-> fs]
             /\ pc' = "remux"
  /\ UNCHANGED <<args, exit_code, exit_reason, constructed, ffmpeg_available,
                 runVars, fs, temp_dirs, ydl_opts, info, output_path, result,
                 histVars>>

\* lines 349-358: the remux invocation and the check of its output
embed_remux ==
  /\ pc = "remux"
  /\ \E o \in RemuxOutcomes(fs, args.overwrite, em.temp_output) :
       /\ fs' = o.fs
       /\ em' = [em EXCEPT !.phase = o.status]
       /\ pc' = IF o.status = "ok"
                THEN (IF Exists(o.fs, em.temp_output) THEN "unlink" ELSE "embed_return")
                ELSE "except"
  /\ UNCHANGED <<args, exit_code, exit_reason, constructed, ffmpeg_available,
                 runVars, temp_dirs, ydl_opts, info, output_path, result,
                 histVars>>

\* line 359
embed_unlink_original ==
  /\ pc = "unlink"
  /\ fs' = UnlinkOriginal(fs, em.video_path, em.temp_output)
  /\ pc' = "rename"
  /\ UNCHANGED <<args, exit_code, exit_reason, constructed, ffmpeg_available,
                 runVars, temp_dirs, localVars, histVars>>

\* line 360
embed_rename ==
  /\ pc = "rename"
  /\ fs' = RenameTemp(fs, em.video_path, em.temp_output)
  /\ pc' = "cleanup"
  /\ UNCHANGED <<args, exit_code, exit_reason, constructed, ffmpeg_available,
                 runVars, temp_dirs, localVars, histVars>>

\* lines 364-365: one iteration of the clean-up loop (set order is arbitrary)
embed_cleanup ==
  /\ pc = "cleanup"
  /\ IF em.remaining = {}
     THEN pc' = "embed_return" /\ UNCHANGED <<fs, em>>
     ELSE \E s \in em.remaining :
            /\ fs' = Unlink(fs, s[2])
            /\ em' = [em EXCEPT !.remaining = em.remaining \ {s}]
            /\ UNCHANGED pc
  /\ UNCHANGED <<args, exit_code, exit_reason, constructed, ffmpeg_available,
                 runVars, temp_dirs, ydl_opts, info, output_path, result,
                 histVars>>

\* lines 367-370
embed_except ==
  /\ pc = "except"
  /\ fs' = RemuxFailed(fs, em.temp_output)
  /\ pc' = "embed_return"
  /\ UNCHANGED <<args, exit_code, exit_reason, constructed, ffmpeg_available,
                 runVars, temp_dirs, localVars, histVars>>

\* lines 303, 318, 372 and the assignment of line 274
embed_return ==
  /\ pc = "embed_return"
  /\ output_path' = EmbedReturn(em.video_path, em.temp_output)
  /\ pc' = "verify"
  /\ UNCHANGED <<args, exit_code, exit_reason, constructed, ffmpeg_available,
                 runVars, fs, temp_dirs, ydl_opts, info, result, em, histVars>>

(***************************************************************************)
(* download_video, lines 276-281.                                           *)
(***************************************************************************)
download_verify ==
  /\ pc = "verify"
  /\ result' = VerifiedResult(fs, output_path)
  /\ pc' = "leave"
  /\ UNCHANGED <<args, exit_code, exit_reason, constructed, ffmpeg_available,
                 runVars, fs, temp_dirs, ydl_opts, info, output_path, em,
                 histVars>>

(***************************************************************************)
(* download_video returns (the with block of line 245 removes the           *)
(* directory) and run records the result, lines 410-413.                    *)
(***************************************************************************)
download_leave ==
  /\ pc = "leave"
  /\ temp_dirs' = ReleaseTempDir(temp_dirs, i + 1)
  /\ results' = Append(results, result)
  /\ verified' = Append(verified, ~RaisedAt(i + 1) /\ Exists(fs, output_path))
  /\ IF result # None
     THEN success_count' = success_count + 1 /\ UNCHANGED failed_urls
     ELSE failed_urls' = Append(failed_urls, args.urls[i + 1]) /\ UNCHANGED success_count
  /\ exc' = "none"
  /\ i' = i + 1
  /\ pc' = "run"
  \* the frame of download_video is gone
  /\ ydl_opts' = NoOpts
  /\ info' = NoInfo
  /\ output_path' = <<>>
  /\ result' = None
  /\ em' = NoEmbed
  /\ UNCHANGED <<args, exit_code, exit_reason, constructed, ffmpeg_available,
                 fs, listed, fetched, raised>>

\* run, line 424, then main, line 587
run_return ==
  /\ pc = "run"
  /\ ~args.simulate
  /\ i = N
  /\ Exit(RunExitCode(success_count, N), "returned")
  /\ UNCHANGED <<args, constructed, ffmpeg_available, runVars, fs, temp_dirs,
                 localVars, histVars>>

(***************************************************************************)
(* main, lines 589-591: KeyboardInterrupt anywhere inside run(); the with   *)
(* block of download_video removes its directory while unwinding, and the   *)
(* locals of the unwound frames are gone.                                   *)
(***************************************************************************)
interrupt ==
  /\ pc \in {"run", "extract", "embed", "remux", "unlink", "rename", "cleanup",
             "except", "embed_return", "verify", "leave"}
  /\ Exit(EXIT_GENERAL_ERROR, "interrupt")
  /\ temp_dirs' = IF pc = "run" THEN temp_dirs ELSE ReleaseTempDir(temp_dirs, i + 1)
  /\ ydl_opts' = NoOpts
  /\ info' = NoInfo
  /\ output_path' = <<>>
  /\ result' = None
  /\ em' = NoEmbed
  /\ exc' = "none"
  /\ UNCHANGED <<args, constructed, ffmpeg_available, runVars, fs,
                 listed, fetched, raised, results, verified>>

Next ==
  \/ parse_arguments
  \/ init
  \/ list_formats
  \/ run_simulate_return
  \/ download_enter
  \/ download_extract
  \/ embed_discover
  \/ embed_remux
  \/ embed_unlink_original
  \/ embed_rename
  \/ embed_cleanup
  \/ embed_except
  \/ embed_return
  \/ download_verify
  \/ download_leave
  \/ run_return
  \/ interrupt

Spec == Init /\ [][Next]_vars

TypeOK ==
  /\ args \in Requests
  /\ exit_code \in {-1, 0, 1, 2}
  /\ i \in 0..N
  /\ success_count \in 0..N

(***************************************************************************)
(* Properties.                                                              *)
(***************************************************************************)
RunReturned == pc = "exited" /\ exit_reason = "returned"
AfterEmbed == pc \in {"verify", "leave"}

\* the subsequence of s at the indices of S, in order
RECURSIVE SelectAt(_, _, _)
SelectAt(s, S, j) ==
  IF j > Len(s) THEN <<>>
  ELSE (IF j \in S THEN <<s[j]>> ELSE <<>>) \o SelectAt(s, S, j + 1)

UpTo(n) == [j \in 1..n |-> j]

FailedIndexes == {j \in 1..Len(results) : results[j] = None}

\* C1: when run() finishes a non-simulate batch of N URLs of which exactly K
\* made download_video return no path, success_count = N - K, failed_urls is
\* exactly those K URLs in input order, and the exit status is 0 iff K = 0
\* (1 otherwise).
C1_BatchReport ==
  (RunReturned /\ ~args.simulate) =>
    LET K == Cardinality(FailedIndexes)
    IN /\ Len(results) = N
       /\ success_count = N - K
       /\ failed_urls = SelectAt(args.urls, FailedIndexes, 1)
       /\ (exit_code = EXIT_SUCCESS <=> K = 0)
       /\ (K # 0 => exit_code = EXIT_GENERAL_ERROR)

C1_Witness ==
  /\ RunReturned /\ ~args.simulate
  /\ N = 2
  /\ results[1] = None /\ results[2] # None
  /\ exit_code = EXIT_GENERAL_ERROR

\* C2: on the download path an error raised by the extraction engine for one
\* URL never leaves download_video: that URL's attempt returns no path, and
\* every URL of the list is still fetched, in order; a URL whose own fetch
\* and verification went through is not failed by another URL's error.
C2_ErrorIsolated ==
  /\ (exit_reason = "crash" => args.simulate)
  /\ ~args.simulate =>
       /\ \A j \in 1..Len(results) :
            /\ RaisedAt(j) => results[j] = None
            /\ (~RaisedAt(j) /\ verified[j]) => results[j] # None
       /\ (raised # {} /\ pc = "exited") => exit_reason \in {"returned", "interrupt"}
       /\ fetched \in {UpTo(i), UpTo(i + 1)}
       /\ RunReturned => fetched = UpTo(N)

C2_Witness ==
  /\ RunReturned /\ ~args.simulate
  /\ N = 2
  /\ raised = {1}
  /\ results[1] = None /\ results[2] # None
  /\ fetched = <<1, 2>>

\* C3: under simulate no URL is fetched, no file of the output directory is
\* created or changed, no URL enters the failure list, every URL is only
\* queried with download disabled, and when run() returns it has listed all
\* URLs and the exit status is 0.
C3_SimulateListsOnly ==
  args.simulate =>
    /\ fetched = <<>>
    /\ fs \in InitialFiles
    /\ failed_urls = <<>>
    /\ success_count = 0
    /\ results = <<>>
    /\ listed \in {UpTo(i), UpTo(i + 1)}
    /\ RunReturned => (exit_code = EXIT_SUCCESS /\ listed = UpTo(N))

C3_Witness ==
  /\ args.simulate
  /\ RunReturned
  /\ N = 2
  /\ listed = <<1, 2>>
  /\ exit_code = EXIT_SUCCESS

\* C4: on the listing path a DownloadError for a URL ends the process at once
\* with exit status 2: the failing URL is the last one listed, nothing is
\* fetched, and the exit status is the network-error status.
C4_ListingFailureFatal ==
  \A j \in raised :
    (args.simulate /\ exc = "DownloadError") =>
      /\ pc = "exited"
      /\ exit_code = EXIT_NETWORK_ERROR
      /\ exit_reason = "network"
      /\ listed = UpTo(j)
      /\ i = j - 1
      /\ fetched = <<>>

C4_Witness ==
  /\ args.simulate
  /\ N = 2
  /\ raised = {1}
  /\ exc = "DownloadError"
  /\ pc = "exited"
  /\ exit_code = EXIT_NETWORK_ERROR
  /\ listed = <<1>>

\* every file except the remux target is as it was when the embedder started
UntouchedButTemp ==
  Unlink(fs, em.temp_output) = Unlink(em.entry_fs, em.temp_output)

\* C5: after _embed_subtitles returns from a failed remux, the original video
\* is at its path with the data it had, no temporary output remains, every
\* caption sidecar is still present, and the returned path is the original
\* video path.
C5_RemuxFailureKeepsOriginal ==
  (AfterEmbed /\ em.phase = "failed") =>
    /\ Exists(fs, em.video_path)
    /\ Data(fs, em.video_path) = Data(em.entry_fs, em.video_path)
    /\ ~Exists(fs, em.temp_output)
    /\ \A sf \in em.subtitle_files :
         Exists(fs, sf[2]) /\ Data(fs, sf[2]) = Data(em.entry_fs, sf[2])
    /\ UntouchedButTemp
    /\ output_path = em.video_path

C5_Witness ==
  /\ pc = "verify"
  /\ em.phase = "failed"
  /\ Cardinality(em.subtitle_files) = 2
  /\ Exists(em.entry_fs, em.temp_output)
  /\ args.overwrite

\* no sidecar <stem>.<lang><ext> exists in f for any caption language of inf
NoSidecar(f, video_path, inf) ==
  \A lang \in inf.subtitles \cup inf.automatic_captions :
    \A k \in 1..Len(SUPPORTED_SUBTITLE_FORMATS) :
      ~Exists(f, with_suffix(video_path, <<>>) \o <<lang, SUPPORTED_SUBTITLE_FORMATS[k]>>)

\* C6: when the embedder runs on a video for which no caption sidecar exists
\* for any manual or automatic caption language, it returns the input path
\* and the filesystem is as it was: no remux, no file created, deleted or
\* renamed.
C6_NoCaptionsNoChange ==
  (AfterEmbed /\ em.phase # "idle" /\ NoSidecar(em.entry_fs, em.video_path, info)) =>
    /\ em.phase \in {"nosubs", "nofile"}
    /\ fs = em.entry_fs
    /\ output_path = em.video_path

C6_Witness ==
  /\ pc = "verify"
  /\ em.phase = "nosubs"
  /\ info.subtitles \cup info.automatic_captions = {"en", "fr"}
  /\ Exists(fs, em.video_path)
  /\ output_path = em.video_path

InvalidRequest ==
  \/ args.audio_only /\ args.video_only
  \/ \E j \in 1..N : ~validate_url(args.urls[j])

\* C7: a request with a URL that fails validation, or with audio-only and
\* video-only both set, is rejected by argument parsing: no YouTubeDownloader
\* is constructed and no URL is listed or fetched.
C7_InvalidRequestNeverStarts ==
  InvalidRequest =>
    /\ ~constructed
    /\ listed = <<>>
    /\ fetched = <<>>
    /\ fs \in InitialFiles
    /\ pc \in {"parse", "exited"}
    /\ pc = "exited" => exit_reason = "usage"

C7_Witness ==
  /\ pc = "exited"
  /\ exit_reason = "usage"
  /\ N = 2
  /\ validate_url(args.urls[1])
  /\ ~validate_url(args.urls[2])
  /\ ~(args.audio_only /\ args.video_only)

FetchReturned == pc \in {"embed", "remux", "unlink", "rename", "cleanup",
                         "except", "embed_return", "verify"}
                 \/ (pc = "leave" /\ ~RaisedAt(i + 1))

\* C8: in audio-only mode the audio-extraction step is attached and the
\* output path gets the mp3 extension iff ffmpeg was found at startup;
\* without ffmpeg no step is attached and the path keeps the engine's
\* extension; in the other modes the extension is never rewritten.
C8_AudioExtension ==
  /\ pc \in {"extract"} \/ FetchReturned =>
       (ydl_opts.postprocessors # <<>>) = (args.audio_only /\ ffmpeg_available)
  /\ FetchReturned =>
       IF args.audio_only
       THEN /\ ffmpeg_available => output_path = <<info.title, "mp3">>
            /\ ~ffmpeg_available => output_path = <<info.title, info.ext>>
       ELSE output_path = <<info.title, info.ext>>

C8_Witness ==
  /\ pc = "verify"
  /\ args.audio_only
  /\ ~ffmpeg_available
  /\ ydl_opts.postprocessors = <<>>
  /\ output_path = <<"a", "webm">>
  /\ Exists(fs, output_path)

VerifiedIndexes == {j \in 1..Len(verified) : verified[j]}

\* C9: a URL is counted as succeeded iff a file exists at the final output
\* path when download_video returns; a URL whose engine call reported no
\* error but whose file is missing is recorded as failed.
C9_SuccessIffFileExists ==
  /\ Len(verified) = Len(results)
  /\ \A j \in 1..Len(results) : (results[j] # None) = verified[j]
  /\ success_count = Cardinality(VerifiedIndexes)
  /\ failed_urls = SelectAt(args.urls, (1..Len(verified)) \ VerifiedIndexes, 1)

C9_Witness ==
  /\ Len(results) = 2
  /\ raised = {}
  /\ ~verified[1] /\ verified[2]
  /\ failed_urls = <<args.urls[1]>>
  /\ success_count = 1

\* C10: after a successful remux the embedder deletes the original, renames
\* the temporary output to the original's path, then deletes the consumed
\* sidecars: when it returns the remuxed video is at the original path, no
\* temporary output and no consumed sidecar remains, and the returned path
\* is the original path; in every state of the embedder the video is at the
\* original path or at the temporary path.
C10_RemuxSuccessReplaces ==
  /\ (AfterEmbed /\ em.phase = "ok") =>
       /\ Exists(fs, em.video_path)
       /\ Data(fs, em.video_path) = "muxed"
       /\ ~Exists(fs, em.temp_output)
       /\ \A sf \in em.subtitle_files : ~Exists(fs, sf[2])
       /\ fs = WriteFile({e \in em.entry_fs :
                             e[1] \notin {em.temp_output} \cup {sf[2] : sf \in em.subtitle_files}},
                          em.video_path, "muxed")
       /\ output_path = em.video_path
  /\ em.phase \in {"found", "ok", "failed"} =>
       Exists(fs, em.video_path) \/ Exists(fs, em.temp_output)
  /\ pc = "rename" =>
       /\ ~Exists(fs, em.video_path)
       /\ Data(fs, em.temp_output) = "muxed"
       /\ \A sf \in em.subtitle_files : Exists(fs, sf[2])
  /\ pc = "cleanup" =>
       /\ Data(fs, em.video_path) = "muxed"
       /\ ~Exists(fs, em.temp_output)
       /\ \A sf \in em.remaining : Exists(fs, sf[2])

C10_Witness ==
  /\ pc = "verify"
  /\ em.phase = "ok"
  /\ Cardinality(em.subtitle_files) = 2
  /\ Data(fs, em.video_path) = "muxed"
  /\ Data(em.entry_fs, em.video_path) = "raw"
  /\ output_path = em.video_path

InAttempt == pc \in {"extract", "embed", "remux", "unlink", "rename", "cleanup",
                     "except", "embed_return", "verify", "leave"}

\* C11: every download attempt holds a temporary directory of its own, not
\* used by an earlier attempt, and the directory is gone on every way out of
\* the attempt (returned path, missing file, caught error, interrupt) before
\* the next attempt begins: at most one exists at any time, none between
\* attempts and none once the process has exited.
C11_TempDirScoped ==
  /\ Cardinality(temp_dirs) <= 1
  /\ InAttempt => (temp_dirs = {i + 1} /\ Len(results) = i)
  /\ ~InAttempt => temp_dirs = {}
  /\ \A d \in temp_dirs : d > Len(results)

C11_Witness ==
  /\ pc = "extract"
  /\ i = 1
  /\ temp_dirs = {2}
  /\ raised = {1}
  /\ results = <<None>>

=============================================================================
